---- MODULE Spec2Model ----
(***************************************************************************)
(* Order status lifecycle of the e-commerce order system (backend-v2):     *)
(* OrderService (create_order, update_order, update_order_status,          *)
(* cancel_order), the status endpoint of routes/orders.py, and the         *)
(* BackgroundJobManager: its sweeps (_process_pending_orders, the periodic *)
(* pass, and update_all_pending_orders_now, the manual trigger) and its    *)
(* worker loop (start, stop, _job_loop), all working on one shared orders  *)
(* table.                                                                  *)
(*                                                                         *)
(* Every handler opens its own SQLAlchemy session (get_db).  A session     *)
(* reads rows with SELECT and writes them back with UPDATE ... WHERE id    *)
(* at commit, with no version column and no row lock, so what one session  *)
(* read can be changed by another session before it commits.  A handler    *)
(* is therefore modelled as the step that reads and decides followed by    *)
(* the step that commits.                                                  *)
(*                                                                         *)
(* Time is in whole seconds.  An aware datetime is modelled by its         *)
(* instant (seconds, UTC); a naive datetime by the number its wall clock   *)
(* shows.  The default store is SQLite (config.py), whose DateTime column  *)
(* drops tzinfo: created_at and updated_at are stored as naive IST wall    *)
(* clock values (background_jobs.py lines 66-67 say so).                   *)
(***************************************************************************)
EXTENDS Integers, Sequences, FiniteSets, TLC

\* ---- bounds of the model ----
\* Orders placed under Spec (every operation) and under SweepSpec (the sweeps
\* against cancel_order).
MaxOrders == 1
MaxSweepOrders == 2
MaxClock == 301
MaxReq == 1
\* _job_loop tasks alive at once (a start() after a stop() adds one).
MaxTasks == 2
\* Items of one OrderCreate body.
MaxItems == 2

\* ---- program constants ----
CancelWindowSeconds == 300
SweepAgeSeconds == 300
IstOffsetSeconds == 19800

\* The instants at which the clock is read: the start, the five-minute mark
\* and a later instant.
Instants == {0, SweepAgeSeconds, MaxClock}

OrderStatus == {"pending", "confirmed", "processing", "shipped", "delivered",
                "cancelled", "refunded"}

UserRole == {"admin", "vendor", "customer"}

\* The users of the model: the customer who places the orders, another
\* customer, a vendor and an admin.
Users == {"c1", "c2", "v1", "a1"}

role(u) == CASE u \in {"c1", "c2"} -> "customer"
             [] u = "v1" -> "vendor"
             [] u = "a1" -> "admin"

Creators == {"c1"}

OrderIds == 1..MaxOrders

SweepOrderIds == 1..MaxSweepOrders

Reqs == 1..MaxReq

Sweeps == {"periodic", "manual"}

NoNotes == <<>>

NotesInputs == {"none", "n"}
\* The notes and the contact fields of an OrderUpdate body: left out, null, or
\* a text.
UpdateNotesInputs == {"unset", "null", "edited"}
UpdateContactInputs == {"unset", "changed"}

\* The items of an OrderCreate body.  Amounts are in thousandths of the
\* currency unit: unit_price is a Decimal >= 0 of any number of decimal
\* places (here 0.004 and 2.500), quantity an integer >= 1.
ItemInputs == {[quantity |-> 3, unit_price |-> 4], [quantity |-> 1, unit_price |-> 2500]}
ItemsInputs == UNION {[1..n -> ItemInputs] : n \in 1..MaxItems}
\* The items of the orders placed where the items play no part.
PlainItems == <<[quantity |-> 1, unit_price |-> 2500]>>

\* ---- datetime conversions ----

\* datetime.now(IST) read at instant t: the aware datetime of that instant.
get_ist_now(t) == t

\* aware IST datetime -> naive wall clock (replace(tzinfo=None), and what the
\* SQLite DateTime column stores of an aware value).
naive_of_ist(a) == a + IstOffsetSeconds

\* IST.localize(naive): the instant at which the IST wall clock shows naive.
localize_ist(n) == n - IstOffsetSeconds

\* to_ist(naive): a naive value is taken to be UTC, then shown in IST; the
\* instant is the one at which the UTC wall clock shows naive.
to_ist(n) == n

\* ---- the transition table ----
valid_transitions(s) ==
    CASE s = "pending"    -> {"processing", "confirmed", "cancelled"}
      [] s = "confirmed"  -> {"processing", "cancelled"}
      [] s = "processing" -> {"shipped", "cancelled"}
      [] s = "shipped"    -> {"delivered"}
      [] s = "delivered"  -> {"refunded"}
      [] s = "cancelled"  -> {}
      [] s = "refunded"   -> {}

is_valid_status_transition(cur, new) == new \in valid_transitions(cur)

VARIABLES
    orders,   \* the orders table: a sequence of rows, the id is the index
    now,      \* the clock: the current instant
    req,      \* the service calls that have read and decided, not yet committed
    sw,       \* the two sweeps: position in the pass and session contents
    wk        \* the job manager: the running flag and its _job_loop tasks

vars == <<orders, now, req, sw, wk>>

NoReq == [op |-> "none"]

\* undone: the promotions the last pass held in its session when it was
\* rolled back.
IdleSweep ==
    [pc |-> "idle", cands |-> {}, dirty |-> {}, seen |-> <<>>, cur |-> 0, undone |-> {}]

\* BackgroundJobManager.__init__: not running, no _job_loop task.
Tasks == 1..MaxTasks

IdleWorker == [running |-> FALSE, task |-> [t \in Tasks |-> "none"]]

exists(oid) == oid \in 1..Len(orders)

\* The age of a row at the clock's instant: created_at holds the IST wall
\* clock of the instant at which the row was inserted.
true_age(oid) == now - localize_ist(orders[oid].created_at)

Init ==
    /\ orders = <<>>
    /\ now = 0
    /\ req = [r \in Reqs |-> NoReq]
    /\ sw = [p \in Sweeps |-> IdleSweep]
    /\ wk = IdleWorker

\* The clock advances.
Tick ==
    /\ \E t \in Instants : t > now /\ now' = t
    /\ UNCHANGED <<orders, req, sw, wk>>

\* ---- amounts ----
\* A Numeric(10, 2) column as it is read back: the value rounded to two
\* decimal places, to the nearest hundredth.  (No amount of the model lies
\* halfway between two hundredths.)
numeric_10_2(m) == LET r == m % 10 IN IF r < 5 THEN m - r ELSE m - r + 10

\* create_order line 47: item_total = unit_price * quantity, in Decimal.
item_total(item) == item.unit_price * item.quantity

\* The OrderItem of line 49-58 as the order_items table returns it.
order_item(item) ==
    [quantity |-> item.quantity,
     unit_price |-> numeric_10_2(item.unit_price),
     total_price |-> numeric_10_2(item_total(item))]

\* total_amount after the loop of lines 44-60 over the items.
RECURSIVE total_amount_of(_)
total_amount_of(items) ==
    IF items = <<>> THEN 0 ELSE item_total(Head(items)) + total_amount_of(Tail(items))

\* The order row with its items as the store returns it once committed.
\* contact stands for the columns customer_name, customer_phone and
\* shipping_address.
order_row(u, items, total, created, updated) ==
    [user_id |-> u, status |-> "pending", notes |-> NoNotes,
     contact |-> "as ordered",
     items |-> [k \in 1..Len(items) |-> order_item(items[k])],
     total_amount |-> numeric_10_2(total),
     created_at |-> created,
     updated_at |-> updated]

\* OrderService.create_order, from its first line to its commit taken as one
\* step: the row is inserted with status pending and created_at = updated_at
\* = get_ist_now.
create_order(u) ==
    /\ orders' = Append(orders,
          order_row(u, PlainItems, total_amount_of(PlainItems),
                    naive_of_ist(get_ist_now(now)), naive_of_ist(get_ist_now(now))))
    /\ UNCHANGED <<now, req, sw, wk>>

\* ---- OrderService.create_order, statement by statement ----
\* Lines 30-42: the Order is added to the session and flushed.  The INSERT
\* is inside the session's transaction: the row has its created_at, and no
\* other session sees it.  oid is the row's place in the store, 0 until the
\* commit.
create_order_flush(r, u, items) ==
    /\ req[r] = NoReq
    /\ req' = [req EXCEPT ![r] =
               [op |-> "create", pc |-> "flushed", user |-> u, items |-> items,
                added |-> <<>>, total |-> 0, oid |-> 0,
                created_at |-> naive_of_ist(get_ist_now(now))]]
    /\ UNCHANGED <<orders, now, sw, wk>>

\* Lines 44-60, one turn of the loop: the next OrderItem is added to the
\* session and its item_total to the running total.
create_order_add_item(r) ==
    /\ req[r].op = "create"
    /\ req[r].pc = "flushed"
    /\ Len(req[r].added) < Len(req[r].items)
    /\ LET item == req[r].items[Len(req[r].added) + 1] IN
       req' = [req EXCEPT ![r].added = Append(@, item),
                          ![r].total = @ + item_total(item)]
    /\ UNCHANGED <<orders, now, sw, wk>>

\* Lines 63-65: order.total_amount is assigned and db.commit() makes the
\* order and its items visible; updated_at is written by this flush.
create_order_commit(r) ==
    /\ req[r].op = "create"
    /\ req[r].pc = "flushed"
    /\ Len(req[r].added) = Len(req[r].items)
    /\ orders' = Append(orders,
          order_row(req[r].user, req[r].added, req[r].total,
                    req[r].created_at, naive_of_ist(get_ist_now(now))))
    /\ req' = [req EXCEPT ![r].pc = "committed", ![r].oid = Len(orders) + 1]
    /\ UNCHANGED <<now, sw, wk>>

\* Lines 66-69: db.refresh(order) reads the row back and the call returns
\* the order.
create_order_return(r) ==
    /\ req[r].op = "create"
    /\ req[r].pc = "committed"
    /\ req' = [req EXCEPT ![r] = NoReq]
    /\ UNCHANGED <<orders, now, sw, wk>>

\* Lines 71-77: a store call of the try block raises (the flush of the items
\* or the COMMIT at line 65, the SELECT of db.refresh at line 66);
\* db.rollback() discards what the session's transaction holds and the call
\* answers 500 "Failed to create order".
create_order_except(r) ==
    /\ req[r].op = "create"
    /\ req' = [req EXCEPT ![r] = NoReq]
    /\ UNCHANGED <<orders, now, sw, wk>>

\* ---- annotations appended to Order.notes ----
\* notes is the sequence of the annotations appended so far.  An annotation
\* is kept by its kind: "[<new status>] <text>" of update_order_status, and
\* "[CANCELLED] Order cancelled by <role>" of cancel_order.
status_note(new, text) == "[status] text"

cancel_note(r) == "[CANCELLED] Order cancelled by role"

\* The lookup without its access control.
get_order_by_id_unfiltered(oid, u) ==
    IF ~exists(oid) THEN "notfound" ELSE "found"

\* The lookup answering a customer who asks for another user's order as it
\* answers for an order that does not exist.
get_order_by_id_hiding(oid, u) ==
    IF ~exists(oid) THEN "notfound"
    ELSE IF role(u) = "customer" /\ orders[oid].user_id # u THEN "notfound"
    ELSE "found"

\* ---- OrderService.get_order_by_id ----
\* "found", "denied" (a customer asking for another user's order) or
\* "notfound".
get_order_by_id(oid, u) ==
    IF ~exists(oid) THEN "notfound"
    ELSE IF role(u) = "customer" /\ orders[oid].user_id # u THEN "denied"
    ELSE "found"

\* ---- OrderService.update_order_status: lookup, permission checks, edge check ----
\* The outcome decided from the row as read: <<result, reason>>.
update_order_status_decision(oid, new, u, bypass) ==
    LET got == get_order_by_id(oid, u) IN
    IF got = "notfound" THEN <<"notfound", "Order not found">>
    ELSE IF got = "denied" THEN <<"denied", "Access denied">>
    ELSE IF ~bypass /\ role(u) = "customer" /\ orders[oid].user_id # u
        THEN <<"denied", "You can only update your own orders">>
    ELSE IF ~bypass /\ role(u) = "customer"
            /\ ~(orders[oid].status = "pending" /\ new = "processing")
        THEN <<"denied", "Customers can only auto-update pending orders to processing">>
    ELSE IF ~bypass /\ role(u) \notin {"customer", "vendor", "admin"}
        THEN <<"denied", "Only vendors and admins can update order status">>
    ELSE IF ~is_valid_status_transition(orders[oid].status, new)
        THEN <<"invalid", "Invalid status transition">>
    ELSE <<"ok", "ok">>

\* The only caller (the status endpoint) passes bypass_permission_check=True
\* only for a pending order and the requested status processing.
bypass_allowed(oid, new, bypass) ==
    bypass => (exists(oid) /\ orders[oid].status = "pending" /\ new = "processing")

\* The call reads the row and decides; a refused call returns at once, an
\* accepted one holds the row as read (read: its status) with the new status
\* (and notes) in its session.
update_order_status(r, u, oid, new, notes, bypass) ==
    /\ req[r] = NoReq
    /\ bypass_allowed(oid, new, bypass)
    /\ LET d == update_order_status_decision(oid, new, u, bypass) IN
       IF d[1] = "ok"
       THEN req' = [req EXCEPT ![r] =
                  [op |-> "update_status", user |-> u, oid |-> oid, new |-> new,
                   read |-> orders[oid].status,
                   notes |-> IF notes # "none"
                             THEN Append(orders[oid].notes, status_note(new, notes))
                             ELSE orders[oid].notes,
                   setNotes |-> notes # "none"]]
       ELSE UNCHANGED req
    /\ UNCHANGED <<orders, now, sw, wk>>

\* ---- PATCH /orders/{order_id}/status (routes/orders.py) ----
\* The names bound in the module routes/orders.py by its imports and
\* assignments (lines 6-21).
orders_route_names ==
    {"List", "Optional", "APIRouter", "Depends", "Query", "status", "HTTPException",
     "Session", "get_db", "get_current_active_user", "require_vendor_or_admin",
     "get_logger", "User", "OrderStatus", "OrderCreate", "OrderResponse",
     "OrderUpdate", "OrderStatusUpdate", "PaginationParams", "PaginatedResponse",
     "OrderService", "logger", "router"}

\* What OrderService.update_order_status raises for a refusal: an
\* HTTPException carrying the status code and the reason.
service_raises(d) ==
    [type |-> "HTTPException",
     status |-> CASE d[1] = "notfound" -> 404
                  [] d[1] = "denied" -> 403
                  [] d[1] = "invalid" -> 400,
     detail |-> d[2]]

\* The except clauses of the endpoint (lines 165-171): ValueError, then
\* PermissionError, then every other Exception, HTTPException included.
status_endpoint_except(e) ==
    IF e.type = "ValueError" THEN <<400, e.detail>>
    ELSE IF e.type = "PermissionError" THEN <<403, e.detail>>
    ELSE <<500, "Internal server error">>

\* Lines 142-152: the endpoint asks for the bypass when the row it read is
\* pending and the requested status is processing.
status_endpoint_bypass(oid, new) ==
    orders[oid].status = "pending" /\ new = "processing"

\* The answer of the endpoint: <<HTTP status, detail>>.  Line 138 evaluates
\* the name Order before anything else is done with the request.
status_endpoint_response(oid, new, u) ==
    IF "Order" \notin orders_route_names
        THEN status_endpoint_except(
                [type |-> "NameError", status |-> 0,
                 detail |-> "name 'Order' is not defined"])
    ELSE IF ~exists(oid)
        THEN status_endpoint_except(
                [type |-> "HTTPException", status |-> 404, detail |-> "Order not found"])
    ELSE LET d == update_order_status_decision(oid, new, u,
                                               status_endpoint_bypass(oid, new)) IN
         IF d[1] = "ok" THEN <<200, "ok">>
         ELSE status_endpoint_except(service_raises(d))

\* The endpoint as a step: it reaches OrderService.update_order_status only
\* when nothing was raised before the call.
patch_order_status(r, u, oid, new, notes) ==
    IF status_endpoint_response(oid, new, u)[1] = 200
    THEN update_order_status(r, u, oid, new, notes, status_endpoint_bypass(oid, new))
    ELSE req[r] = NoReq /\ UNCHANGED vars

\* ---- OrderService.cancel_order: lookup, status check, permission checks ----
\* time_diff of the customer's five-minute check.
cancel_time_diff(oid) == get_ist_now(now) - to_ist(orders[oid].created_at)

cancel_order_decision(oid, u) ==
    IF ~exists(oid) THEN <<"invalid", "Order not found">>
    ELSE IF orders[oid].status \in {"delivered", "cancelled"}
        THEN <<"invalid", "Order cannot be cancelled">>
    ELSE IF role(u) = "customer" /\ orders[oid].user_id # u
        THEN <<"denied", "You can only cancel your own orders">>
    ELSE IF role(u) = "customer" /\ orders[oid].status # "pending"
        THEN <<"denied", "You can only cancel orders that are in PENDING status">>
    ELSE IF role(u) = "customer" /\ cancel_time_diff(oid) > CancelWindowSeconds
        THEN <<"denied", "You can only cancel orders within 5 minutes of creation">>
    ELSE IF role(u) \notin {"customer", "vendor", "admin"}
        THEN <<"denied", "Only customers, vendors, and admins can cancel orders">>
    ELSE <<"ok", "ok">>

cancel_order(r, u, oid) ==
    /\ req[r] = NoReq
    /\ LET d == cancel_order_decision(oid, u) IN
       IF d[1] = "ok"
       THEN req' = [req EXCEPT ![r] =
                  [op |-> "cancel", user |-> u, oid |-> oid, new |-> "cancelled",
                   read |-> orders[oid].status,
                   notes |-> Append(orders[oid].notes, cancel_note(role(u))),
                   setNotes |-> TRUE]]
       ELSE UNCHANGED req
    /\ UNCHANGED <<orders, now, sw, wk>>

\* ---- OrderService.update_order: lookup, permission checks, setattr loop ----
\* update_order without the check of the status for customers.
update_order_decision_any_status(oid, u) ==
    LET got == get_order_by_id(oid, u) IN
    IF got = "notfound" THEN <<"notfound", "Order not found">>
    ELSE IF got = "denied" THEN <<"denied", "Access denied">>
    ELSE IF role(u) = "customer" /\ orders[oid].user_id # u
        THEN <<"denied", "Access denied">>
    ELSE <<"ok", "ok">>

update_order_decision(oid, u) ==
    LET got == get_order_by_id(oid, u) IN
    IF got = "notfound" THEN <<"notfound", "Order not found">>
    ELSE IF got = "denied" THEN <<"denied", "Access denied">>
    ELSE IF role(u) = "customer" /\ orders[oid].user_id # u
        THEN <<"denied", "Access denied">>
    ELSE IF role(u) = "customer" /\ orders[oid].status # "pending"
        THEN <<"invalid", "Can only update pending orders">>
    ELSE <<"ok", "ok">>

\* What OrderUpdate.notes sets Order.notes to: the text given, or nothing
\* for an explicit null.
update_notes(notes) == IF notes = "null" THEN NoNotes ELSE <<notes>>

\* order_data.dict(exclude_unset=True): every field the request sets is
\* assigned to the row as given (setattr), notes among them.
update_order(r, u, oid, notes, contact) ==
    /\ req[r] = NoReq
    /\ LET d == update_order_decision(oid, u) IN
       IF d[1] = "ok"
       THEN req' = [req EXCEPT ![r] =
                  [op |-> "update", user |-> u, oid |-> oid,
                   read |-> orders[oid].status,
                   notes |-> IF notes # "unset" THEN update_notes(notes)
                             ELSE orders[oid].notes,
                   setNotes |-> notes # "unset",
                   contact |-> contact, setContact |-> contact # "unset"]]
       ELSE UNCHANGED req
    /\ UNCHANGED <<orders, now, sw, wk>>

\* ---- db.commit() of update_order, update_order_status and cancel_order ----
\* The session flushes UPDATE orders SET the columns assigned (status, notes,
\* contact), updated_at (onupdate=get_ist_now) WHERE id = oid, whatever the
\* row holds by now.
flush_row(row, q) ==
    [row EXCEPT !.status = IF q.op = "update" THEN @ ELSE q.new,
                !.notes = IF q.setNotes THEN q.notes ELSE @,
                !.contact = IF q.op = "update" /\ q.setContact THEN q.contact ELSE @,
                !.updated_at = naive_of_ist(get_ist_now(now))]

commit(r) ==
    /\ req[r].op \notin {"none", "create"}
    /\ orders' = [orders EXCEPT ![req[r].oid] = flush_row(@, req[r])]
    /\ req' = [req EXCEPT ![r] = NoReq]
    /\ UNCHANGED <<now, sw, wk>>

\* db.commit() raises: the session is rolled back and the call fails.
commit_fails(r) ==
    /\ req[r].op \notin {"none", "create"}
    /\ req' = [req EXCEPT ![r] = NoReq]
    /\ UNCHANGED <<orders, now, sw, wk>>

\* ---- BackgroundJobManager: the two sweeps ----
\* The batch query of both sweeps: pending rows with created_at <= cutoff,
\* the cutoff being the naive IST wall clock five minutes before `at`.
pending_older_than(at) ==
    {oid \in 1..Len(orders) :
        /\ orders[oid].status = "pending"
        /\ orders[oid].created_at <= naive_of_ist(at - SweepAgeSeconds)}

\* The session of a pass after its query: the clock reading and the batch.
pass_begun ==
    [IdleSweep EXCEPT !.pc = "loop", !.cur = get_ist_now(now),
                      !.cands = pending_older_than(get_ist_now(now))]

\* _process_pending_orders, lines 58-75: the clock is read once, the batch is
\* queried.  This is a pass of the worker loop taken by itself; job_loop_turn
\* is the same step as part of the loop.
process_pending_orders_query ==
    /\ sw["periodic"].pc = "idle"
    /\ sw' = [sw EXCEPT !["periodic"] = pass_begun]
    /\ UNCHANGED <<orders, now, req, wk>>

\* The periodic pass measuring the age as cancel_order does, with to_ist.
periodic_promotes_to_ist(oid, cur) ==
    /\ orders[oid].status = "pending"
    /\ ~((cur - to_ist(orders[oid].created_at)) <= SweepAgeSeconds)

\* The periodic pass promotes a re-read row when it is still pending and its
\* age, from the clock reading of the pass, is more than five minutes.
periodic_promotes(oid, cur) ==
    /\ orders[oid].status = "pending"
    /\ ~((cur - localize_ist(orders[oid].created_at)) <= SweepAgeSeconds)

\* The manual pass trusting the batch instead of the re-read row.
manual_promotes_batch(oid, cur) ==
    TRUE

\* The manual pass promotes a re-read row when it is still pending.
manual_promotes(oid, cur) ==
    orders[oid].status = "pending"

promotes(p, oid, cur) ==
    IF p = "periodic" THEN periodic_promotes(oid, cur) ELSE manual_promotes(oid, cur)

\* One turn of the for loop of either sweep: db.refresh(order), the checks,
\* and the promotion kept in the session (status, updated_at) until commit.
\* seen records the status the re-read returned.
sweep_step(p, oid) ==
    /\ sw[p].pc = "loop"
    /\ oid \in sw[p].cands
    /\ sw' = [sw EXCEPT ![p].cands = @ \ {oid},
                        ![p].seen = (oid :> orders[oid].status) @@ @,
                        ![p].dirty = IF promotes(p, oid, sw[p].cur)
                                     THEN @ \cup {oid} ELSE @]
    /\ UNCHANGED <<orders, now, req, wk>>

\* _job_loop, lines 49-50: when the periodic pass returns, the task that ran
\* it goes to asyncio.sleep(job_interval).  A pass that failed has caught
\* and logged its exception (lines 115-119) and returns like any other; `to`
\* keeps which of the two it was.
pass_returned(p, to) ==
    [wk EXCEPT !.task = [t \in Tasks |->
                            IF p = "periodic" /\ wk.task[t] = "pass" THEN to ELSE wk.task[t]]]

\* The commit of a pass stamping the row with the UTC wall clock of the
\* reading instead of the IST one.
sweep_flush_row_utc(row, cur) ==
    [row EXCEPT !.status = "processing", !.updated_at = cur]

\* What the commit of a pass writes to a promoted row.
sweep_flush_row(row, cur) ==
    [row EXCEPT !.status = "processing", !.updated_at = naive_of_ist(cur)]

\* After the loop: db.commit() when updated_count > 0, then db.close().  The
\* manual trigger returns updated_count to the admin endpoint.
sweep_finish(p) ==
    /\ sw[p].pc = "loop"
    /\ sw[p].cands = {}
    /\ orders' = [oid \in 1..Len(orders) |->
                    IF oid \in sw[p].dirty
                    THEN sweep_flush_row(orders[oid], sw[p].cur)
                    ELSE orders[oid]]
    /\ sw' = [sw EXCEPT ![p] = IdleSweep]
    /\ wk' = pass_returned(p, "sleeping")
    /\ UNCHANGED <<now, req>>

\* A pass that raises after part of its promotions reached the store.
sweep_raises_partial(p) ==
    /\ sw[p].pc = "loop"
    /\ orders' = [oid \in 1..Len(orders) |->
                    IF oid \in sw[p].dirty
                    THEN sweep_flush_row(orders[oid], sw[p].cur)
                    ELSE orders[oid]]
    /\ sw' = [sw EXCEPT ![p] = [IdleSweep EXCEPT !.undone = sw[p].dirty]]
    /\ wk' = pass_returned(p, "sleeping_after_error")
    /\ UNCHANGED <<now, req>>

\* A store call of the pass raises: the except branch rolls the session back.
\* The periodic pass logs and returns; the manual trigger re-raises and the
\* endpoint answers 500.
sweep_raises(p) ==
    /\ sw[p].pc = "loop"
    /\ sw' = [sw EXCEPT ![p] = [IdleSweep EXCEPT !.undone = sw[p].dirty]]
    /\ wk' = pass_returned(p, "sleeping_after_error")
    /\ UNCHANGED <<orders, now, req>>

\* trigger_pending_orders_update: admins only; update_all_pending_orders_now
\* lines 124-135 read the clock and query the batch.  Its two clock readings
\* (the cutoff's, and current_time_ist written to updated_at) are taken in
\* this one step.
trigger_pending_orders_update(u) ==
    /\ sw["manual"].pc = "idle"
    /\ IF role(u) # "admin"
       THEN UNCHANGED sw
       ELSE sw' = [sw EXCEPT !["manual"] = pass_begun]
    /\ UNCHANGED <<orders, now, req, wk>>

Next ==
    \/ Tick
    \/ \E u \in Creators : Len(orders) < MaxOrders /\ create_order(u)
    \/ \E r \in Reqs, u \in Users, oid \in OrderIds, new \in OrderStatus,
          notes \in NotesInputs, bypass \in BOOLEAN :
          update_order_status(r, u, oid, new, notes, bypass)
    \/ \E r \in Reqs, u \in Users, oid \in OrderIds, new \in OrderStatus,
          notes \in NotesInputs : patch_order_status(r, u, oid, new, notes)
    \/ \E r \in Reqs, u \in Users, oid \in OrderIds : cancel_order(r, u, oid)
    \/ \E r \in Reqs, u \in Users, oid \in OrderIds,
          notes \in UpdateNotesInputs, contact \in UpdateContactInputs :
          update_order(r, u, oid, notes, contact)
    \/ \E r \in Reqs : commit(r)
    \/ \E r \in Reqs : commit_fails(r)
    \/ process_pending_orders_query
    \/ \E u \in Users : trigger_pending_orders_update(u)
    \/ \E p \in Sweeps, oid \in OrderIds : sweep_step(p, oid)
    \/ \E p \in Sweeps : sweep_finish(p)
    \/ \E p \in Sweeps : sweep_raises(p)

Spec == Init /\ [][Next]_vars

\* The sweeps against cancel_order, on more orders: the two passes and one
\* cancel_order call at a time, each between its read and its commit.
SweepReqs == {1}

SweepNext ==
    \/ Tick
    \/ \E u \in Creators : Len(orders) < MaxSweepOrders /\ create_order(u)
    \/ \E r \in SweepReqs, u \in Users, oid \in SweepOrderIds : cancel_order(r, u, oid)
    \/ \E r \in SweepReqs : commit(r)
    \/ \E r \in SweepReqs : commit_fails(r)
    \/ process_pending_orders_query
    \/ \E u \in Users : trigger_pending_orders_update(u)
    \/ \E p \in Sweeps, oid \in SweepOrderIds : sweep_step(p, oid)
    \/ \E p \in Sweeps : sweep_finish(p)
    \/ \E p \in Sweeps : sweep_raises(p)

SweepSpec == Init /\ [][SweepNext]_vars

\* ---- BackgroundJobManager: start, stop and _job_loop ----
free_task(t) == wk.task[t] \in {"none", "exited"}

\* start(): nothing when already running; otherwise the flag is set and
\* asyncio.create_task schedules a new _job_loop.
start ==
    /\ IF wk.running
       THEN UNCHANGED wk
       ELSE \E t \in Tasks :
               /\ free_task(t)
               /\ \A t2 \in Tasks : free_task(t2) => t <= t2
               /\ wk' = [wk EXCEPT !.running = TRUE, !.task[t] = "ready"]
    /\ UNCHANGED <<orders, now, req, sw>>

\* stop(): the flag is cleared; the tasks are left to see it.
stop ==
    /\ wk' = [wk EXCEPT !.running = FALSE]
    /\ UNCHANGED <<orders, now, req, sw>>

\* A loop that does not test the flag.
job_loop_turn_unconditional(t) ==
    /\ wk.task[t] = "ready"
    /\ sw["periodic"].pc = "idle"
    /\ sw' = [sw EXCEPT !["periodic"] = pass_begun]
    /\ wk' = [wk EXCEPT !.task[t] = "pass"]
    /\ UNCHANGED <<orders, now, req>>

\* _job_loop, lines 47-49: the task tests self.running; when it is set the
\* task enters _process_pending_orders (clock reading and batch query),
\* otherwise the loop ends.  A pass runs from its query to its return without
\* giving way to another task of the event loop.
job_loop_turn(t) ==
    /\ wk.task[t] = "ready"
    /\ IF wk.running
       THEN /\ sw["periodic"].pc = "idle"
            /\ sw' = [sw EXCEPT !["periodic"] = pass_begun]
            /\ wk' = [wk EXCEPT !.task[t] = "pass"]
       ELSE /\ wk' = [wk EXCEPT !.task[t] = "exited"]
            /\ UNCHANGED sw
    /\ UNCHANGED <<orders, now, req>>

\* A loop that sleeps only after a pass that returned without error.
job_loop_wake_after_success(t) ==
    /\ wk.task[t] = "sleeping"
    /\ wk' = [wk EXCEPT !.task[t] = "ready"]
    /\ UNCHANGED <<orders, now, req, sw>>

\* asyncio.sleep(job_interval) of line 50 or line 53 is over.
job_loop_wake(t) ==
    /\ wk.task[t] \in {"sleeping", "sleeping_after_error"}
    /\ wk' = [wk EXCEPT !.task[t] = "ready"]
    /\ UNCHANGED <<orders, now, req, sw>>

\* The worker with the store it sweeps: orders are placed, and cancelled by
\* their customer or a vendor, while the loop runs, is stopped and started.
WorkerUsers == {"c1", "v1"}

WorkerNext ==
    \/ Tick
    \/ \E u \in Creators : Len(orders) < MaxOrders /\ create_order(u)
    \/ \E r \in SweepReqs, u \in WorkerUsers, oid \in OrderIds : cancel_order(r, u, oid)
    \/ \E r \in SweepReqs : commit(r)
    \/ \E r \in SweepReqs : commit_fails(r)
    \/ start
    \/ stop
    \/ \E t \in Tasks : job_loop_turn(t)
    \/ \E t \in Tasks : job_loop_wake(t)
    \/ \E oid \in OrderIds : sweep_step("periodic", oid)
    \/ sweep_finish("periodic")
    \/ sweep_raises("periodic")

\* The event loop runs every task that is ready (its queue is first in,
\* first out), every sleep ends, and a pass that has begun goes on until it
\* returns.
WorkerFair ==
    /\ \A t \in Tasks : WF_vars(job_loop_wake(t)) /\ SF_vars(job_loop_turn(t))
    /\ \A oid \in OrderIds : WF_vars(sweep_step("periodic", oid))
    /\ WF_vars(sweep_finish("periodic") \/ sweep_raises("periodic"))

WorkerSpec == Init /\ [][WorkerNext]_vars /\ WorkerFair

\* The same while every store operation succeeds.
PromoteNext ==
    \/ Tick
    \/ \E u \in Creators : Len(orders) < MaxOrders /\ create_order(u)
    \/ \E r \in SweepReqs, u \in WorkerUsers, oid \in OrderIds : cancel_order(r, u, oid)
    \/ \E r \in SweepReqs : commit(r)
    \/ start
    \/ stop
    \/ \E t \in Tasks : job_loop_turn(t)
    \/ \E t \in Tasks : job_loop_wake(t)
    \/ \E oid \in OrderIds : sweep_step("periodic", oid)
    \/ sweep_finish("periodic")

PromoteFair ==
    /\ \A t \in Tasks : WF_vars(job_loop_wake(t)) /\ SF_vars(job_loop_turn(t))
    /\ \A oid \in OrderIds : WF_vars(sweep_step("periodic", oid))
    /\ WF_vars(sweep_finish("periodic"))

PromoteSpec == Init /\ [][PromoteNext]_vars /\ PromoteFair

\* Two service calls on one order, each between its read and its commit,
\* without the sweeps: the owning customer and a vendor change the status,
\* giving no notes.
RaceReqs == {1, 2}

RaceUsers == {"c1", "v1"}

RaceNotes == {"none"}

RaceInit ==
    /\ orders = <<>>
    /\ now = 0
    /\ req = [r \in RaceReqs |-> NoReq]
    /\ sw = [p \in Sweeps |-> IdleSweep]
    /\ wk = IdleWorker

RaceNext ==
    \/ Tick
    \/ \E u \in Creators : Len(orders) < MaxOrders /\ create_order(u)
    \/ \E r \in RaceReqs, u \in RaceUsers, oid \in OrderIds, new \in OrderStatus,
          notes \in RaceNotes, bypass \in BOOLEAN :
          update_order_status(r, u, oid, new, notes, bypass)
    \/ \E r \in RaceReqs, u \in RaceUsers, oid \in OrderIds : cancel_order(r, u, oid)
    \/ \E r \in RaceReqs : commit(r)
    \/ \E r \in RaceReqs : commit_fails(r)

RaceSpec == RaceInit /\ [][RaceNext]_vars

\* Every operation, one call at a time: a call or a pass starts only when no
\* other call or pass is under way.
quiet ==
    /\ \A r \in Reqs : req[r] = NoReq
    /\ \A p \in Sweeps : sw[p].pc = "idle"

SerialNext ==
    \/ Tick
    \/ \E u \in Creators : quiet /\ Len(orders) < MaxOrders /\ create_order(u)
    \/ \E r \in Reqs, u \in Users, oid \in OrderIds, new \in OrderStatus,
          notes \in NotesInputs, bypass \in BOOLEAN :
          quiet /\ update_order_status(r, u, oid, new, notes, bypass)
    \/ \E r \in Reqs, u \in Users, oid \in OrderIds, new \in OrderStatus,
          notes \in NotesInputs : quiet /\ patch_order_status(r, u, oid, new, notes)
    \/ \E r \in Reqs, u \in Users, oid \in OrderIds : quiet /\ cancel_order(r, u, oid)
    \/ \E r \in Reqs, u \in Users, oid \in OrderIds,
          notes \in UpdateNotesInputs, contact \in UpdateContactInputs :
          quiet /\ update_order(r, u, oid, notes, contact)
    \/ \E r \in Reqs : commit(r)
    \/ \E r \in Reqs : commit_fails(r)
    \/ quiet /\ process_pending_orders_query
    \/ \E u \in Users : quiet /\ trigger_pending_orders_update(u)
    \/ \E p \in Sweeps, oid \in OrderIds : sweep_step(p, oid)
    \/ \E p \in Sweeps : sweep_finish(p)
    \/ \E p \in Sweeps : sweep_raises(p)

SerialSpec == Init /\ [][SerialNext]_vars

\* create_order statement by statement, with the operations that follow it
\* on the order placed: update_order and cancel_order.  The clock stands
\* still: no amount and no row of a create_order call depends on it.
CreateUsers == {"c1", "v1"}
CreateNotes == {"unset", "null"}

\* The create_order calls under way.
creating == {r \in Reqs : req[r].op = "create"}

CreateNext ==
    \/ \E r \in Reqs, u \in Creators, items \in ItemsInputs :
          Len(orders) + Cardinality(creating) < MaxOrders
          /\ create_order_flush(r, u, items)
    \/ \E r \in Reqs : create_order_add_item(r)
    \/ \E r \in Reqs : create_order_commit(r)
    \/ \E r \in Reqs : create_order_return(r)
    \/ \E r \in Reqs : create_order_except(r)
    \/ \E r \in Reqs, u \in CreateUsers, oid \in OrderIds,
          notes \in CreateNotes, contact \in UpdateContactInputs :
          update_order(r, u, oid, notes, contact)
    \/ \E r \in Reqs, u \in CreateUsers, oid \in OrderIds : cancel_order(r, u, oid)
    \/ \E r \in Reqs : commit(r)

CreateSpec == Init /\ [][CreateNext]_vars

\* ---------------------------------------------------------------------------
\* Properties
\* ---------------------------------------------------------------------------

Rows == 1..Len(orders)

\* C1: every committed status change, by any operation and any role, is an
\* edge of the legal transition graph.
C1_EveryChangeIsAnEdge ==
    [][\A oid \in Rows :
          orders'[oid].status # orders[oid].status
              => is_valid_status_transition(orders[oid].status, orders'[oid].status)]_vars

\* C2: once an order is cancelled or refunded, no operation changes its
\* status again.
C2_TerminalStaysTerminal ==
    [][\A oid \in Rows :
          orders[oid].status \in {"cancelled", "refunded"}
              => orders'[oid].status = orders[oid].status]_vars

\* C3: a step of a sweep (periodic or manual) never takes an order whose
\* cancellation is committed out of cancelled: the sweep's write does not
\* overwrite a committed cancellation.
C3_SweepKeepsCancelled ==
    [][\A p \in Sweeps, oid \in Rows :
          (sw'[p] # sw[p] /\ orders[oid].status = "cancelled")
              => orders'[oid].status # "processing"]_vars

\* C4: when a sweep re-reads an order that a cancel_order has already
\* cancelled, it skips it: the order is not among the promoted ones counted by
\* the pass, the pass goes on without raising, and the commit of the pass
\* leaves the row as it is.
C4_SweepSkipsCancelled ==
    /\ [](\A p \in Sweeps : \A oid \in DOMAIN sw[p].seen :
            sw[p].seen[oid] = "cancelled" => oid \notin sw[p].dirty)
    /\ [][\A p \in Sweeps, oid \in Rows :
            (sweep_step(p, oid) /\ orders[oid].status = "cancelled")
                => /\ sw'[p].pc = "loop"
                   /\ sw'[p].dirty = sw[p].dirty
                   /\ orders' = orders]_vars
    /\ [][\A p \in Sweeps :
            sweep_finish(p)
                => \A oid \in DOMAIN sw[p].seen :
                      sw[p].seen[oid] = "cancelled" => orders'[oid] = orders[oid]]_vars

\* C4 witness: a pass has re-read an order as cancelled and skipped it, and
\* has promoted another order in the same pass.
C4_Witness ==
    \E p \in Sweeps : \E oid \in DOMAIN sw[p].seen :
        /\ sw[p].seen[oid] = "cancelled"
        /\ sw[p].dirty # {}
        /\ sw[p].cands = {}

\* C5: the owning customer's cancel_order of a pending order is accepted
\* exactly when the order's age is at most 300 seconds, and past 300 seconds
\* it is refused with the window reason.
C5_CustomerCancelWindow ==
    \A oid \in Rows :
        (role(orders[oid].user_id) = "customer" /\ orders[oid].status = "pending")
            => LET d == cancel_order_decision(oid, orders[oid].user_id) IN
               /\ (d[1] = "ok") <=> (true_age(oid) <= CancelWindowSeconds)
               /\ true_age(oid) > CancelWindowSeconds
                    => d = <<"denied", "You can only cancel orders within 5 minutes of creation">>

\* C6: a sweep promotes an order only if, at the re-read, the order is
\* pending and its age is strictly more than 300 seconds.
C6_PromotionNeedsPendingAndAge ==
    [][\A p \in Sweeps, oid \in Rows :
          (sweep_step(p, oid) /\ oid \in sw'[p].dirty)
              => /\ orders[oid].status = "pending"
                 /\ true_age(oid) > SweepAgeSeconds]_vars

\* The number a manual pass returns.
updated_count(p) == Cardinality(sw[p].dirty)

\* C7: the manual sweep returns exactly the number of orders it changed from
\* pending to processing, and it leaves every order that is not pending, or
\* is not older than five minutes, as it is.
C7_ManualCountAndUntouched ==
    [][sweep_finish("manual")
          => /\ updated_count("manual") =
                   Cardinality({oid \in Rows : /\ orders[oid].status = "pending"
                                               /\ orders'[oid].status = "processing"})
             /\ \A oid \in Rows :
                   (orders[oid].status # "pending" \/ true_age(oid) <= SweepAgeSeconds)
                       => orders'[oid] = orders[oid]]_vars

\* The orders a pass of sweep p started now would promote.
would_promote(p) ==
    {oid \in pending_older_than(get_ist_now(now)) : promotes(p, oid, get_ist_now(now))}

\* C8: in every store state and at every clock reading the manual trigger
\* promotes the same orders as a periodic pass.
C8_ManualEqualsPeriodic ==
    would_promote("manual") = would_promote("periodic")

\* C9: for every role, a request over a pair that is no edge of the graph is
\* answered as invalid, by update_order_status and by cancel_order.
C9_NonEdgeIsInvalid ==
    \A u \in Users, oid \in Rows, new \in OrderStatus :
        ~is_valid_status_transition(orders[oid].status, new)
            => /\ update_order_status_decision(oid, new, u, FALSE)[1] = "invalid"
               /\ new = "cancelled" => cancel_order_decision(oid, u)[1] = "invalid"

\* C10: right after a transition to s is committed, the same request by the
\* same requester is answered as invalid, whatever the role.
C10_RepeatIsInvalid ==
    [][\A r \in Reqs, u \in Users, oid \in Rows, new \in OrderStatus :
          (commit(r) /\ req[r].op # "update" /\ req[r].user = u /\ req[r].oid = oid /\ req[r].new = new)
              => IF req[r].op = "cancel"
                 THEN (cancel_order_decision(oid, u)[1])' = "invalid"
                 ELSE (update_order_status_decision(oid, new, u, FALSE)[1])' = "invalid"]_vars

\* C11: a customer's update_order, update_order_status (with or without the
\* endpoint's bypass), status endpoint request or cancel_order on an order of
\* another user is always refused, and no call of a customer on another
\* user's order is ever waiting to commit, so none modifies the order.
C11_CustomerCannotTouchOthers ==
    /\ \A u \in Users, oid \in Rows :
          (role(u) = "customer" /\ orders[oid].user_id # u)
              => /\ update_order_decision(oid, u)[1] # "ok"
                 /\ \A new \in OrderStatus, bypass \in BOOLEAN :
                       update_order_status_decision(oid, new, u, bypass)[1] # "ok"
                 /\ \A new \in OrderStatus : status_endpoint_response(oid, new, u)[1] # 200
                 /\ cancel_order_decision(oid, u)[1] # "ok"
    /\ \A r \in Reqs :
          (req[r] # NoReq /\ role(req[r].user) = "customer")
              => orders[req[r].oid].user_id = req[r].user

\* C11 witness: an order its owner may update and cancel, and another
\* customer asking for the same is refused.
C11_Witness ==
    \E oid \in Rows :
        /\ orders[oid].user_id = "c1"
        /\ update_order_decision(oid, "c1")[1] = "ok"
        /\ cancel_order_decision(oid, "c1")[1] = "ok"
        /\ update_order_decision(oid, "c2")[1] = "denied"
        /\ update_order_status_decision(oid, "processing", "c2", TRUE)[1] = "denied"
        /\ cancel_order_decision(oid, "c2")[1] = "denied"

\* C12: a commit of a customer's request changes the status of the order only
\* from pending to processing or from pending to cancelled; it never changes
\* the status of an order that is not pending.
C12_CustomerOnlyMovesPending ==
    [][\A r \in DOMAIN req :
          (commit(r) /\ role(req[r].user) = "customer")
              => \/ orders'[req[r].oid].status = orders[req[r].oid].status
                 \/ /\ orders[req[r].oid].status = "pending"
                    /\ orders'[req[r].oid].status \in {"processing", "cancelled"}]_vars

\* C13: the status endpoint answers a request the policy denies with 403 and
\* the policy's reason, and a request over a pair that is no edge with 400
\* and the reason, never with a generic internal error.
C13_EndpointReportsReason ==
    \A u \in Users, oid \in Rows, new \in OrderStatus :
        LET d == update_order_status_decision(oid, new, u, status_endpoint_bypass(oid, new))
            resp == status_endpoint_response(oid, new, u) IN
        /\ d[1] = "denied" => resp = <<403, d[2]>>
        /\ d[1] = "invalid" => resp = <<400, d[2]>>
        /\ d[1] \in {"denied", "invalid"} => resp[1] # 500

\* C14: a status change that was an edge from the status its call read is,
\* when it commits, an edge from the status the store holds at that moment.
C14_CommitIsEdgeFromStored ==
    [][\A r \in DOMAIN req :
          (commit(r) /\ req[r].op # "update"
                     /\ is_valid_status_transition(req[r].read, req[r].new))
              => is_valid_status_transition(orders[req[r].oid].status, req[r].new)]_vars

\* C15: a pass that raises leaves the store as it was: only the commit that
\* ends a pass writes the store, the promotions the pass held are not
\* visible after the rollback, and the orders they were for are still pending
\* and still in the batch of a pass that starts next.
C15_FailedPassLeavesNothing ==
    /\ [][\A p \in Sweeps :
            (sw'[p] # sw[p] /\ ~sweep_finish(p)) => orders' = orders]_vars
    /\ [][\A p \in Sweeps :
            sweep_raises(p)
                => /\ orders' = orders
                   /\ sw'[p].pc = "idle"
                   /\ \A oid \in sw[p].dirty :
                         /\ orders'[oid].status = "pending"
                         /\ oid \in pending_older_than(get_ist_now(now))']_vars

\* C15 witness: a pass was rolled back while it held a promotion, and the
\* order is still pending in the store.
C15_Witness ==
    \E p \in Sweeps :
        /\ sw[p].pc = "idle"
        /\ sw[p].undone # {}
        /\ \A oid \in sw[p].undone : orders[oid].status = "pending"

\* C16: a pass that raised does not end the loop: the task that ran it sleeps
\* and then attempts another pass, unless the running flag has been cleared.
C16_FailedPassIsRetried ==
    \A t \in Tasks :
        (wk.task[t] = "sleeping_after_error") ~> (wk.task[t] = "pass" \/ ~wk.running)

\* C16 witness: a task asleep after a failed pass while the worker is running.
C16_Witness ==
    \E t \in Tasks : wk.task[t] = "sleeping_after_error" /\ wk.running

\* C17: when stop() is not followed by a start(), every loop ends, and no pass
\* begins while the running flag is cleared.
C17_StopEndsLoop ==
    /\ (<>[](~wk.running)) => <>[](\A t \in Tasks : free_task(t))
    /\ [][\A t \in Tasks :
            (wk.task[t] # "pass" /\ wk'.task[t] = "pass") => wk.running /\ wk'.running]_vars

\* C17 witness: the worker is stopped and a loop that had run a pass has ended.
C17_Witness ==
    /\ ~wk.running
    /\ \E t \in Tasks : wk.task[t] = "exited"
    /\ \E oid \in Rows : orders[oid].status = "processing"

\* C18: while the worker runs and the store operations succeed, an order that
\* is pending and older than 300 seconds does not stay pending.
C18_StalePendingIsPromoted ==
    \A oid \in OrderIds :
        (exists(oid) /\ orders[oid].status = "pending" /\ true_age(oid) > SweepAgeSeconds)
            ~> (~wk.running \/ (exists(oid) /\ orders[oid].status # "pending"))

\* C18 witness: the periodic pass has promoted an order while the worker is
\* running.
C18_Witness ==
    /\ wk.running
    /\ \E oid \in Rows :
          /\ orders[oid].status = "processing"
          /\ true_age(oid) > SweepAgeSeconds

\* The notes a stands at the head of the notes b: b is a with annotations
\* concatenated after it.
is_prefix(a, b) == Len(a) <= Len(b) /\ SubSeq(b, 1, Len(a)) = a

\* C19: notes are append-only: whatever an operation does to an order, the
\* notes it had are still the head of the notes it has afterwards.
C19_NotesAppendOnly ==
    [][\A oid \in Rows : is_prefix(orders[oid].notes, orders'[oid].notes)]_vars

\* C20: every status change, by update_order_status, cancel_order or a sweep,
\* appends an annotation to the notes of the order.
C20_StatusChangeAnnotates ==
    [][\A oid \in Rows :
          orders'[oid].status # orders[oid].status
              => /\ Len(orders'[oid].notes) > Len(orders[oid].notes)
                 /\ is_prefix(orders[oid].notes, orders'[oid].notes)]_vars

\* C21: in every reachable state every order's updated_at is at or after its
\* created_at, also after a sweep has written updated_at from the clock
\* reading it took at the start of its pass.
C21_UpdatedNotBeforeCreated ==
    \A oid \in Rows : orders[oid].updated_at >= orders[oid].created_at

\* A sweep has promoted a row with a clock reading older than the clock is
\* by the time of its commit.
C21_Witness ==
    \E oid \in Rows :
        /\ orders[oid].status = "processing"
        /\ orders[oid].updated_at > orders[oid].created_at
        /\ orders[oid].updated_at < naive_of_ist(get_ist_now(now))

\* C22: after create_order and after any later operation, an order's
\* total_amount is the sum over its items of quantity times unit_price, and
\* each item's total_price is its quantity times its unit_price.
RECURSIVE sum_of_items(_)
sum_of_items(items) ==
    IF items = <<>> THEN 0
    ELSE Head(items).quantity * Head(items).unit_price + sum_of_items(Tail(items))

C22_TotalsMatchItems ==
    \A oid \in Rows :
        /\ orders[oid].total_amount = sum_of_items(orders[oid].items)
        /\ \A k \in 1..Len(orders[oid].items) :
              orders[oid].items[k].total_price =
                  orders[oid].items[k].quantity * orders[oid].items[k].unit_price

\* C23: create_order is atomic.  While a call has not committed no row of it
\* is in the store; when it fails, at whichever statement, no order row and
\* no item row of it is in the store afterwards; when it succeeds the order
\* is stored pending with every item of the request.
C23_CreateIsAtomic ==
    [][\A r \in Reqs : req[r].op = "create" =>
          /\ create_order_except(r) => req[r].oid \notin 1..Len(orders')
          /\ (\A r2 \in Reqs : ~create_order_commit(r2)) => Len(orders') = Len(orders)
          /\ create_order_commit(r) =>
                /\ Len(orders') = Len(orders) + 1
                /\ SubSeq(orders', 1, Len(orders)) = orders
                /\ LET row == orders'[Len(orders')] IN
                      /\ row.status = "pending"
                      /\ row.user_id = req[r].user
                      /\ Len(row.items) = Len(req[r].items)
                      /\ \A k \in 1..Len(row.items) :
                            row.items[k].quantity = req[r].items[k].quantity]_vars

LookupIds == 1..(MaxOrders + 1)

C25_LookupAccessControl ==
    \A oid \in LookupIds, u \in Users :
        /\ get_order_by_id(oid, u) = "found"
               <=> (exists(oid) /\ (role(u) \in {"vendor", "admin"}
                                     \/ orders[oid].user_id = u))
        /\ (role(u) = "customer" /\ exists(oid) /\ orders[oid].user_id # u)
               => get_order_by_id(oid, u) = "denied"
        /\ (role(u) = "customer" /\ ~exists(oid))
               => get_order_by_id(oid, u) = "notfound"

\* An order its owner, the vendor and the admin are given and another
\* customer is denied, next to an id under which there is no order.
C25_Witness ==
    \E oid \in Rows :
        /\ ~exists(oid + 1)
        /\ get_order_by_id(oid, orders[oid].user_id) = "found"
        /\ get_order_by_id(oid, "v1") = "found"
        /\ get_order_by_id(oid, "a1") = "found"
        /\ get_order_by_id(oid, "c2") = "denied"
        /\ get_order_by_id(oid + 1, "c2") = "notfound"

\* C26: at most one worker loop is active at any time, whatever the sequence
\* of start() and stop() calls, also when start() is called while a loop that
\* was stopped is still sleeping.
active_loops == {t \in Tasks : wk.task[t] \notin {"none", "exited"}}

C26_AtMostOneLoop == Cardinality(active_loops) <= 1

\* C27: a customer's cancel_order takes effect only on an order whose stored
\* status is pending at the time of its commit: when a sweep has promoted the
\* order after the cancellation read it and before the cancellation commits,
\* the commit of the cancellation does not change the order.
C27_CancelNeedsPendingAtCommit ==
    [][\A r \in DOMAIN req :
          (commit(r) /\ req[r].op = "cancel" /\ role(req[r].user) = "customer")
              => (orders[req[r].oid].status = "pending"
                  \/ orders'[req[r].oid] = orders[req[r].oid])]_vars

\* C28: for a pending order there is no age, in whole seconds, at which both
\* its owner's cancel_order is accepted and a sweep, periodic or manual,
\* would promote it.
C28_CancelAndPromotionDisjoint ==
    \A oid \in Rows :
        (role(orders[oid].user_id) = "customer" /\ orders[oid].status = "pending")
            => ~(/\ cancel_order_decision(oid, orders[oid].user_id)[1] = "ok"
                 /\ \E p \in Sweeps : oid \in would_promote(p))

\* age_seconds of the periodic pass, lines 88-89: the clock reading of the
\* pass minus IST.localize(order.created_at).
sweep_age_seconds(oid, cur) == cur - localize_ist(orders[oid].created_at)

\* C29: from the same stored creation timestamp and the same clock reading,
\* cancel_order and the periodic sweep compute the same age in seconds.
C29_SameAge ==
    \A oid \in Rows : cancel_time_diff(oid) = sweep_age_seconds(oid, get_ist_now(now))

\* C30: what a customer's cancel_order answers on an existing order of
\* another user does not depend on the order's status: it is the refusal
\* given for an order of theirs that is not their own, whatever the status.
C30_ForeignCancelIgnoresStatus ==
    \A oid \in Rows, u \in Users :
        (role(u) = "customer" /\ orders[oid].user_id # u)
            => cancel_order_decision(oid, u) =
                   <<"denied", "You can only cancel your own orders">>

====
